---- MODULE Spec2Model ----
(***************************************************************************)
(* State-machine model of the cultivia front end: the two paragraph        *)
(* reveal components of ChatStyles.jsx (TypingMessage, ChatMessage), the  *)
(* hosting views (EventSearch, ChatInterface) and EventsList.               *)
(*                                                                         *)
(* A string is a sequence of one-character strings.  `undefined`, the      *)
(* value JavaScript yields for an out-of-range array read, is the          *)
(* one-element sequence Undefined, which no string of the model equals.    *)
(***************************************************************************)
EXTENDS Integers, Sequences, FiniteSets, TLC

\* ------------------------------------------------------------------ bounds
MaxStarts == 2     \* effect runs (mount + content changes) per instance
MaxPending == 2    \* timer callbacks that run before React renders
UnitsMaxLen == 6   \* longest content string of the unit-derivation runs

Alphabet == {"a", "b", " ", "\n"}
WhiteSpace == {" ", "\n"}
Undefined == <<"undefined">>

RECURSIVE StringsUpTo(_)
StringsUpTo(n) ==
  IF n = 0 THEN {<<>>}
  ELSE LET S == StringsUpTo(n - 1)
       IN S \cup {Append(s, c) : s \in {t \in S : Len(t) = n - 1}, c \in Alphabet}

\* content strings of the unit-derivation runs: every string up to the bound
UnitContents == StringsUpTo(UnitsMaxLen)

\* content strings a reveal instance is given: the empty string, a blank
\* string, one line and two lines (SpecUnits derives Units from every
\* string up to UnitsMaxLen)
Contents ==
  { <<>>,
    <<" ", "\n">>,
    <<"a">>,
    <<"a", "\n", "b">> }

Range(s) == {s[i] : i \in 1..Len(s)}

\* --------------------------------------------------------- pure functions
\* String.prototype.split('\n'): the maximal line-break-free pieces, in order
RECURSIVE Split(_)
Split(s) ==
  IF \A i \in 1..Len(s) : s[i] # "\n" THEN <<s>>
  ELSE LET i == CHOOSE k \in 1..Len(s) :
                   s[k] = "\n" /\ \A j \in 1..(k - 1) : s[j] # "\n"
       IN <<SubSeq(s, 1, i - 1)>> \o Split(SubSeq(s, i + 1, Len(s)))

\* String.prototype.trim(): strip leading and trailing white space
RECURSIVE Trim(_)
Trim(p) ==
  IF p = <<>> THEN p
  ELSE IF p[1] \in WhiteSpace THEN Trim(Tail(p))
  ELSE IF p[Len(p)] \in WhiteSpace THEN Trim(SubSeq(p, 1, Len(p) - 1))
  ELSE p

RECURSIVE MapTrim(_)
MapTrim(ls) == IF ls = <<>> THEN <<>> ELSE <<Trim(Head(ls))>> \o MapTrim(Tail(ls))

\* .filter(p => p !== '')
RECURSIVE FilterNonEmpty(_)
FilterNonEmpty(ls) ==
  IF ls = <<>> THEN <<>>
  ELSE IF Head(ls) # <<>> THEN <<Head(ls)>> \o FilterNonEmpty(Tail(ls))
  ELSE FilterNonEmpty(Tail(ls))

\* .filter(p => p.trim() !== ''): the kept lines are left untrimmed
RECURSIVE FilterNonBlank(_)
FilterNonBlank(ls) ==
  IF ls = <<>> THEN <<>>
  ELSE IF Trim(Head(ls)) # <<>> THEN <<Head(ls)>> \o FilterNonBlank(Tail(ls))
  ELSE FilterNonBlank(Tail(ls))

\* [...new Set(xs)]: insertion order, first occurrence kept
RECURSIVE SetSpread(_)
SetSpread(xs) ==
  IF xs = <<>> THEN <<>>
  ELSE LET init == SetSpread(SubSeq(xs, 1, Len(xs) - 1))
           last == xs[Len(xs)]
       IN IF last \in Range(init) THEN init ELSE Append(init, last)

\* uniqueParagraphs with .filter applied before .map(p => p.trim())
uniqueParagraphsFilterFirst(c) == SetSpread(MapTrim(FilterNonEmpty(Split(c))))

\* ChatMessage: uniqueParagraphs
uniqueParagraphs(c) == SetSpread(FilterNonEmpty(MapTrim(Split(c))))

\* TypingMessage: paragraphs
paragraphs(c) == FilterNonBlank(Split(c))

\* arr[i] for a JavaScript index i (0-based); out of range reads undefined
At(arr, i) == IF i >= 0 /\ i < Len(arr) THEN arr[i + 1] ELSE Undefined

\* `!content` for a string
Falsy(c) == c = <<>>

\* ------------------------------------------------------------------ state
VARIABLES
  comp,                \* which component this instance is
  phase,               \* "rendered" (effect not yet run), "mounted", "removed"
                       \* (taken out of the tree, cleanup not yet run),
                       \* "unmounted"
  content,             \* prop: content / message.content
  isUser,              \* ChatMessage: message.type === 'user'
  visibleParagraphs,   \* ChatMessage state
  displayedParagraphs, \* TypingMessage state
  isTyping,            \* TypingMessage state
  sessions,            \* one record per effect run: the closure of that run
  eager,               \* the root is a legacy root: it renders synchronously
                       \* inside a setState made outside an event handler
  pending,             \* state updates queued and not yet rendered, oldest
                       \* first (see Update)
  clean,               \* neither fiber of the component has pending work:
                       \* true from creation to the first queued update and
                       \* again after a render started by the parent
  view,                \* which hosting view this is
  messages,            \* EventSearch / ChatInterface state: the transcript
  events,              \* EventSearch state
  userInput,           \* EventSearch state
  input,               \* ChatInterface state
  isLoadingEvents,     \* EventSearch state
  isLoadingChat,       \* EventSearch state
  calls,               \* one record per handleSubmit invocation past its guard
  lastEvent,           \* "blank submit" when the handler that ran last was a
                       \* handleSubmit stopped by its blank guard, else "other"
  visibleEvents,       \* EventsList state
  shown                \* the values of the last render, which the form and
                       \* the handlers' closures read: ChatInterface's
                       \* messages and input, EventSearch's loading flags

revealVars == <<comp, phase, content, isUser, visibleParagraphs,
                displayedParagraphs, isTyping, sessions, eager, pending,
                clean>>
appVars == <<view, messages, events, userInput, input, isLoadingEvents,
             isLoadingChat, calls, lastEvent, shown>>
listVars == <<visibleEvents>>
vars == <<revealVars, appVars, listVars>>

\* The closure of one effect run.
\*   units        uniqueParagraphs / paragraphs of the run
\*   currentIndex currentIndex / currentParagraphIndex
\*   timer        "first"    the timeout whose handle is `timer` is pending
\*                "chain"    a timeout armed by showNextParagraph is pending
\*                "interval" typingInterval is active
\*                "none"     nothing of this run is armed
\*   ticks        how many times the run's callback has fired
\*   appends      how many of those ticks queued an append
\*   cancelled    the run has ended: the component re-ran the effect or
\*                unmounted, executing the cleanup the run returned
\*   late         ticks fired after that
NewSession(us, t) ==
  [units |-> us, currentIndex |-> -1, timer |-> t, ticks |-> 0,
   appends |-> 0, cancelled |-> FALSE, late |-> 0]

Cur == Len(sessions)

\* the list the instance shows
Revealed == IF comp = "ChatMessage" THEN visibleParagraphs ELSE displayedParagraphs

\* the cleanup returned by the previous effect run, if it returned one:
\* clearTimeout(timer) / clearInterval(typingInterval).  clearTimeout only
\* reaches the timeout whose handle it is given; a handle that has fired is
\* ignored.
Cleanup(ss) ==
  IF ss = <<>> THEN ss
  ELSE LET s == ss[Len(ss)]
       IN [ss EXCEPT ![Len(ss)] =
             [s EXCEPT !.timer = IF s.timer \in {"first", "interval"}
                                 THEN "none" ELSE s.timer,
                       !.cancelled = TRUE]]

\* ------------------------------------------------- React's update queue
\* A setState call made outside an event handler.  On a legacy root React
\* renders synchronously inside the call.  On a concurrent root the call
\* queues an update and React renders in a later task; the updater function
\* of a queued update runs when that render runs.  One exception
\* (dispatchSetState): when neither fiber of the component has pending
\* work (`clean`) React computes the new state inside the call, so an
\* updater then reads its closure as it is at the call.
\*   op  "set"         a computed list: setX(value), or an updater React ran
\*                     inside the call
\*       "append"      the updater prev => [...prev, units[index]] of run
\*                     `run`, still to be run
\*       "typingTrue"  setIsTyping(true)
\*       "typingFalse" setIsTyping(false)
Update(op, run, val) == [op |-> op, run |-> run, val |-> val]

IsAppend(x) == x.op = "append"

\* the list after a render has applied the queued updates q, oldest first:
\* the last computed list, then every updater queued after it, each reading
\* its run's index as it is when the render runs
Flushed(list, q, ss) ==
  LET S == { k \in 1..Len(q) : q[k].op = "set" }
      last == IF S = {} THEN 0 ELSE CHOOSE k \in S : \A j \in S : j <= k
      base == IF last = 0 THEN list ELSE q[last].val
      A == SelectSeq(SubSeq(q, last + 1, Len(q)), IsAppend)
  IN base \o [k \in 1..Len(A) |-> At(ss[A[k].run].units, ss[A[k].run].currentIndex)]

\* isTyping after a render has applied the queued updates q
FlushedTyping(t, q) ==
  LET S == { k \in 1..Len(q) : q[k].op \in {"typingTrue", "typingFalse"} }
  IN IF S = {} THEN t
     ELSE q[CHOOSE k \in S : \A j \in S : j <= k].op = "typingTrue"

\* the appending updater, as run i's callback hands it to React: computed
\* inside the call (the index not yet incremented) on a legacy root and on
\* a clean fiber, queued as a function otherwise
AppendUpdate(list, i) ==
  IF eager \/ clean
  THEN Update("set", 0, Append(list, At(sessions[i].units, sessions[i].currentIndex)))
  ELSE Update("append", i, <<>>)

\* What an effect body or a timer callback can leave behind: list and t are
\* the component's list and isTyping, q the queue with the new updates
\* added, ss the sessions as the caller leaves them.  A legacy root has
\* rendered; a concurrent root renders at once or, when mayDefer, in a later
\* task.  The result is the set of possible <<list, isTyping, pending>>.
AfterCallback(list, t, q, ss, mayDefer) ==
  { <<Flushed(list, q, ss), FlushedTyping(t, q), <<>> >> }
  \cup (IF ~eager /\ mayDefer THEN { <<list, t, q>> } ELSE {})

\* ------------------------------------------------------------ ChatMessage
\* the run the effect body starts for content c: no timer for a user message
CMNewSession(c, u) ==
  NewSession(uniqueParagraphs(c), IF u THEN "none" ELSE "first")

\* body of the effect, ChatStyles.jsx 161-187: setVisibleParagraphs(...)
\* replaces whatever is queued
CMEffectBody(ss, c, u) ==
  LET us == uniqueParagraphs(c)
      q == << Update("set", 0, IF u THEN us ELSE <<>>) >>
  IN /\ sessions' = Append(ss, CMNewSession(c, u))
     /\ \E r \in AfterCallback(visibleParagraphs, isTyping, q, sessions', TRUE) :
          visibleParagraphs' = r[1] /\ pending' = r[3]
     /\ clean' = (eager /\ clean)

CMMount ==
  /\ comp = "ChatMessage" /\ phase = "rendered"
  /\ CMEffectBody(sessions, content, isUser)
  /\ phase' = "mounted"
  /\ UNCHANGED <<appVars, listVars, eager, comp, content, isUser,
                 displayedParagraphs, isTyping>>

\* re-render with changed dependencies [message.content, isUser]
CMUpdate(c, u) ==
  /\ comp = "ChatMessage" /\ phase = "mounted"
  /\ <<c, u>> # <<content, isUser>>
  /\ Cur < MaxStarts
  /\ content' = c /\ isUser' = u
  /\ CMEffectBody(Cleanup(sessions), c, u)
  /\ UNCHANGED <<appVars, listVars, eager, comp, phase, displayedParagraphs, isTyping>>

\* The parent stops rendering the component: React takes it out of the
\* tree and drops its queued updates.  The cleanup of a useEffect runs when
\* React flushes the passive effects of that commit, which is in the same
\* task or in a later one; until then the timers of the run stay armed and
\* their callbacks fire, their setState calls ignored.
\* An effect that is still waiting when that render starts (the first one,
\* or the re-run for props that have just changed) is flushed first: its
\* run is armed, and the updates it queues go with the component, on a
\* legacy root too.
CMUnmount ==
  /\ comp = "ChatMessage"
  /\ \/ /\ phase = "mounted"
        /\ UNCHANGED <<content, isUser, sessions, clean>>
     \/ /\ phase = "rendered"
        /\ sessions' = Append(sessions, CMNewSession(content, isUser))
        /\ clean' = (eager /\ clean)
        /\ UNCHANGED <<content, isUser>>
     \/ /\ phase = "mounted" /\ Cur < MaxStarts
        /\ \E c \in Contents, u \in BOOLEAN :
             /\ <<c, u>> # <<content, isUser>>
             /\ content' = c /\ isUser' = u
             /\ sessions' = Append(Cleanup(sessions), CMNewSession(c, u))
        /\ clean' = (eager /\ clean)
  /\ phase' = "removed"
  /\ pending' = <<>>
  /\ UNCHANGED <<appVars, listVars, eager, comp, visibleParagraphs,
                 displayedParagraphs, isTyping>>

\* the cleanup of the last effect run, after the removal
CMUnmountCleanup ==
  /\ comp = "ChatMessage" /\ phase = "removed"
  /\ phase' = "unmounted"
  /\ sessions' = Cleanup(sessions)
  /\ UNCHANGED <<appVars, listVars, eager, clean, pending, comp, content, isUser,
                 visibleParagraphs, displayedParagraphs, isTyping>>

\* showNextParagraph of run i fires
CMTick(i) ==
  /\ comp = "ChatMessage" /\ i \in 1..Cur
  /\ sessions[i].timer \in {"first", "chain"}
  /\ LET s == sessions[i]
         lt == IF s.cancelled THEN 1 ELSE 0
     IN \/ /\ s.currentIndex < Len(s.units)
           /\ sessions' = [sessions EXCEPT ![i] =
                [s EXCEPT !.currentIndex = s.currentIndex + 1,
                          !.timer = "chain",
                          !.ticks = s.ticks + 1,
                          !.appends = s.appends + 1,
                          !.late = s.late + lt]]
           /\ IF phase = "mounted"
              THEN /\ \E r \in
                        AfterCallback(visibleParagraphs, isTyping,
                                      Append(pending, AppendUpdate(visibleParagraphs, i)),
                                      sessions', Len(pending) < MaxPending) :
                        visibleParagraphs' = r[1] /\ pending' = r[3]
                   /\ clean' = (eager /\ clean)
              ELSE UNCHANGED <<visibleParagraphs, pending, clean>>
        \/ /\ s.currentIndex >= Len(s.units)
           /\ sessions' = [sessions EXCEPT ![i] =
                [s EXCEPT !.timer = "none",
                          !.ticks = s.ticks + 1,
                          !.late = s.late + lt]]
           /\ UNCHANGED <<visibleParagraphs, pending, clean>>
  /\ UNCHANGED <<appVars, listVars, eager, comp, phase, content, isUser,
                 displayedParagraphs, isTyping>>

\* ---------------------------------------------------------- TypingMessage
\* the run the effect body starts for content c: none armed when !content
TMNewSession(c) ==
  IF Falsy(c) THEN NewSession(<<>>, "none")
  ELSE NewSession(paragraphs(c), "interval")

\* body of the effect, ChatStyles.jsx 90-113: setDisplayedParagraphs([]) and
\* setIsTyping(true) replace whatever is queued
TMEffectBody(ss, c) ==
  LET q == << Update("set", 0, <<>>), Update("typingTrue", 0, <<>>) >>
  IN /\ sessions' = Append(ss, TMNewSession(c))
     /\ \E r \in AfterCallback(displayedParagraphs, isTyping, q, sessions', TRUE) :
          displayedParagraphs' = r[1] /\ isTyping' = r[2] /\ pending' = r[3]
     /\ clean' = (eager /\ clean)

TMMount ==
  /\ comp = "TypingMessage" /\ phase = "rendered"
  /\ TMEffectBody(sessions, content)
  /\ phase' = "mounted"
  /\ UNCHANGED <<appVars, listVars, eager, comp, content, isUser,
                 visibleParagraphs>>

TMUpdate(c) ==
  /\ comp = "TypingMessage" /\ phase = "mounted"
  /\ c # content
  /\ Cur < MaxStarts
  /\ content' = c
  /\ TMEffectBody(Cleanup(sessions), c)
  /\ UNCHANGED <<appVars, listVars, eager, comp, phase, isUser, visibleParagraphs>>

\* removal from the tree, a waiting effect flushed first; the cleanup
\* follows (see CMUnmount)
TMUnmount ==
  /\ comp = "TypingMessage"
  /\ \/ /\ phase = "mounted"
        /\ UNCHANGED <<content, sessions, clean>>
     \/ /\ phase = "rendered"
        /\ sessions' = Append(sessions, TMNewSession(content))
        /\ clean' = (eager /\ clean)
        /\ UNCHANGED content
     \/ /\ phase = "mounted" /\ Cur < MaxStarts
        /\ \E c \in Contents :
             /\ c # content
             /\ content' = c
             /\ sessions' = Append(Cleanup(sessions), TMNewSession(c))
        /\ clean' = (eager /\ clean)
  /\ phase' = "removed"
  /\ pending' = <<>>
  /\ UNCHANGED <<appVars, listVars, eager, comp, isUser, visibleParagraphs,
                 displayedParagraphs, isTyping>>

\* the cleanup of the last effect run, after the removal
TMUnmountCleanup ==
  /\ comp = "TypingMessage" /\ phase = "removed"
  /\ phase' = "unmounted"
  /\ sessions' = Cleanup(sessions)
  /\ UNCHANGED <<appVars, listVars, eager, clean, pending, comp, content, isUser,
                 visibleParagraphs, displayedParagraphs, isTyping>>

\* the setInterval callback without its clearInterval(typingInterval) call
TMTickNoClear(i) ==
  /\ comp = "TypingMessage" /\ i \in 1..Cur
  /\ sessions[i].timer = "interval"
  /\ LET s == sessions[i]
         lt == IF s.cancelled THEN 1 ELSE 0
     IN \/ /\ s.currentIndex < Len(s.units)
           /\ sessions' = [sessions EXCEPT ![i] =
                [s EXCEPT !.currentIndex = s.currentIndex + 1,
                          !.ticks = s.ticks + 1,
                          !.appends = s.appends + 1,
                          !.late = s.late + lt]]
           /\ IF phase = "mounted"
              THEN /\ \E r \in
                        AfterCallback(displayedParagraphs, isTyping,
                                      Append(pending, AppendUpdate(displayedParagraphs, i)),
                                      sessions', Len(pending) < MaxPending) :
                        displayedParagraphs' = r[1] /\ isTyping' = r[2] /\ pending' = r[3]
                   /\ clean' = (eager /\ clean)
              ELSE UNCHANGED <<displayedParagraphs, isTyping, pending, clean>>
        \/ /\ s.currentIndex >= Len(s.units)
           /\ sessions' = [sessions EXCEPT ![i] =
                [s EXCEPT !.ticks = s.ticks + 1,
                          !.late = s.late + lt]]
           \* setIsTyping(false): nothing to do when React can see, inside
           \* the call, that isTyping is false already
           /\ IF phase = "mounted" /\ ~((eager \/ clean) /\ ~isTyping)
              THEN /\ \E r \in
                        AfterCallback(displayedParagraphs, isTyping,
                                      Append(pending, Update("typingFalse", 0, <<>>)),
                                      sessions', Len(pending) < MaxPending) :
                        displayedParagraphs' = r[1] /\ isTyping' = r[2] /\ pending' = r[3]
                   /\ clean' = (eager /\ clean)
              ELSE UNCHANGED <<displayedParagraphs, isTyping, pending, clean>>
  /\ UNCHANGED <<appVars, listVars, eager, comp, phase, content, isUser,
                 visibleParagraphs>>

\* the setInterval callback of run i fires
TMTick(i) ==
  /\ comp = "TypingMessage" /\ i \in 1..Cur
  /\ sessions[i].timer = "interval"
  /\ LET s == sessions[i]
         lt == IF s.cancelled THEN 1 ELSE 0
     IN \/ /\ s.currentIndex < Len(s.units)
           /\ sessions' = [sessions EXCEPT ![i] =
                [s EXCEPT !.currentIndex = s.currentIndex + 1,
                          !.ticks = s.ticks + 1,
                          !.appends = s.appends + 1,
                          !.late = s.late + lt]]
           /\ IF phase = "mounted"
              THEN /\ \E r \in
                        AfterCallback(displayedParagraphs, isTyping,
                                      Append(pending, AppendUpdate(displayedParagraphs, i)),
                                      sessions', Len(pending) < MaxPending) :
                        displayedParagraphs' = r[1] /\ isTyping' = r[2] /\ pending' = r[3]
                   /\ clean' = (eager /\ clean)
              ELSE UNCHANGED <<displayedParagraphs, isTyping, pending, clean>>
        \/ /\ s.currentIndex >= Len(s.units)
           /\ sessions' = [sessions EXCEPT ![i] =
                [s EXCEPT !.timer = "none",
                          !.ticks = s.ticks + 1,
                          !.late = s.late + lt]]
           \* setIsTyping(false): nothing to do when React can see, inside
           \* the call, that isTyping is false already
           /\ IF phase = "mounted" /\ ~((eager \/ clean) /\ ~isTyping)
              THEN /\ \E r \in
                        AfterCallback(displayedParagraphs, isTyping,
                                      Append(pending, Update("typingFalse", 0, <<>>)),
                                      sessions', Len(pending) < MaxPending) :
                        displayedParagraphs' = r[1] /\ isTyping' = r[2] /\ pending' = r[3]
                   /\ clean' = (eager /\ clean)
              ELSE UNCHANGED <<displayedParagraphs, isTyping, pending, clean>>
  /\ UNCHANGED <<appVars, listVars, eager, comp, phase, content, isUser,
                 visibleParagraphs>>

\* ------------------------------------------------------- both components
\* React renders the updates the effect and the timer callbacks have queued
RenderPending ==
  /\ phase = "mounted" /\ pending # <<>>
  /\ IF comp = "ChatMessage"
     THEN /\ visibleParagraphs' = Flushed(visibleParagraphs, pending, sessions)
          /\ UNCHANGED <<displayedParagraphs, isTyping>>
     ELSE /\ displayedParagraphs' = Flushed(displayedParagraphs, pending, sessions)
          /\ isTyping' = FlushedTyping(isTyping, pending)
          /\ UNCHANGED visibleParagraphs
  /\ pending' = <<>>
  /\ UNCHANGED <<appVars, listVars, eager, clean, comp, phase, content, isUser, sessions>>

\* The hosting view re-renders and passes the same props: the effect does
\* not re-run, and both fibers of the component are left without pending
\* work.
ParentRender ==
  /\ phase = "mounted" /\ ~eager /\ pending = <<>> /\ ~clean
  /\ clean' = TRUE
  /\ UNCHANGED <<appVars, listVars, comp, phase, content, isUser, visibleParagraphs,
                 displayedParagraphs, isTyping, sessions, eager, pending>>

\* ------------------------------------------------------------ host views
MaxSubmits == 2    \* handleSubmit invocations that pass the blank guard

\* what the user can type
Inputs == { <<>>, <<" ">>, <<" ", "q">> }

\* text fields a backend reply can carry (undefined when the field is absent)
Replies == { Undefined, <<>>, <<"H", "H", "a", "H">> }

\* fixed fallback texts (each literal stands for the whole string)
ChatErrorText == <<"Desole, une erreur s'est produite lors de la generation de la reponse.">>
StatusErrorText == <<"Desole, une erreur est survenue.">>
ServerErrorText == <<"Desole, une erreur est survenue lors de la communication avec le serveur.">>

\* JavaScript truthiness of a string-or-undefined value
Truthy(v) == v # Undefined /\ v # <<>>

\* .replace(/([H])\1+/g, ''): every maximal run of two or more H is removed
RECURSIVE StripH(_)
StripH(s) ==
  IF s = <<>> THEN <<>>
  ELSE IF s[1] = "H" /\ Len(s) >= 2 /\ s[2] = "H"
       THEN LET n == CHOOSE k \in 2..Len(s) :
                       /\ \A j \in 1..k : s[j] = "H"
                       /\ (k = Len(s) \/ s[k + 1] # "H")
            IN StripH(SubSeq(s, n + 1, Len(s)))
       ELSE <<s[1]>> \o StripH(Tail(s))

\* events the search backend can return
EvA == [id |-> 1, url |-> <<"u">>, event_url |-> Undefined]
EvB == [id |-> 2, url |-> Undefined, event_url |-> <<"m">>]
EvC == [id |-> 3, url |-> <<>>, event_url |-> Undefined]
SearchResults == { <<>>, <<EvA, EvB, EvC>> }

\* event.url || (event.metadata && event.metadata.event_url) || ''
ProcessedUrl(e) ==
  IF Truthy(e.url) THEN e.url
  ELSE IF Truthy(e.event_url) THEN e.event_url
  ELSE <<>>

processedEvents(arr) == [k \in 1..Len(arr) |-> [arr[k] EXCEPT !.url = ProcessedUrl(arr[k])]]

\* One handleSubmit invocation that passed its guard.
\*   pc           "search" awaiting /search, "chat" awaiting /chat, "done"
\*   currentInput the text submitted
\*   outcome      how the invocation ended ("" while it runs)
\*   gotEvents    its /search reply carried an events array
\*   found        that array, as processed
NewCall(pc0, txt) ==
  [pc |-> pc0, currentInput |-> txt, outcome |-> "", gotEvents |-> FALSE,
   found |-> <<>>]

\* -- EventSearch
\* the form as rendered: disabled={isLoadingEvents && isLoadingChat}
ESForm ==
  view = "EventSearch" /\ ~(shown.isLoadingEvents /\ shown.isLoadingChat)

\* A state update made outside an event handler (in the continuation of an
\* awaited fetch) is rendered at once by a legacy root and in a later task by
\* a concurrent root; until that render the form and the handlers' closures
\* keep the previous render's values.
ESRendered(le, lc) == [shown EXCEPT !.isLoadingEvents = le, !.isLoadingChat = lc]
CIRendered(ms, inp) == [shown EXCEPT !.messages = ms, !.input = inp]

\* what is on screen after such an update when a render would show r
Renders(r) == IF eager THEN {r} ELSE {shown, r}

\* onChange of the text input (disabled while both requests are loading)
ESChange(v) ==
  /\ ESForm
  /\ v # userInput
  /\ userInput' = v
  /\ lastEvent' = "other"
  /\ UNCHANGED <<revealVars, listVars, view, messages, events, input, isLoadingEvents,
                 isLoadingChat, calls, shown>>

\* variant of handleSubmit whose guard is `if (!userInput) return;`
ESSubmitNoTrim ==
  /\ ESForm
  /\ \/ /\ userInput = <<>>
        /\ lastEvent' = "blank submit"
        /\ UNCHANGED <<messages, userInput, isLoadingEvents, calls, shown>>
     \/ /\ userInput # <<>>
        /\ Len(calls) < MaxSubmits
        /\ messages' = Append(messages,
             [type |-> "user", content |-> userInput, req |-> Len(calls) + 1])
        /\ userInput' = <<>>
        /\ isLoadingEvents' = TRUE
        /\ shown' = [shown EXCEPT !.isLoadingEvents = TRUE]
        /\ calls' = Append(calls, NewCall("search", userInput))
        /\ lastEvent' = IF Trim(userInput) = <<>> THEN "blank submit" ELSE "other"
  /\ UNCHANGED <<revealVars, listVars, view, events, input, isLoadingChat>>

\* handleSubmit up to its first await, searchEvents up to its fetch
ESSubmit ==
  /\ ESForm
  /\ \/ /\ Trim(userInput) = <<>>
        /\ lastEvent' = "blank submit"
        /\ UNCHANGED <<messages, userInput, isLoadingEvents, calls, shown>>
     \/ /\ Trim(userInput) # <<>>
        /\ Len(calls) < MaxSubmits
        /\ messages' = Append(messages,
             [type |-> "user", content |-> userInput, req |-> Len(calls) + 1])
        /\ userInput' = <<>>
        /\ isLoadingEvents' = TRUE
        /\ shown' = [shown EXCEPT !.isLoadingEvents = TRUE]
        /\ calls' = Append(calls, NewCall("search", userInput))
        /\ lastEvent' = "other"
  /\ UNCHANGED <<revealVars, listVars, view, events, input, isLoadingChat>>

\* variant of the /search failure path without the finally block
ESSearchThrowNoFinally(i) ==
  /\ view = "EventSearch" /\ i \in 1..Len(calls) /\ calls[i].pc = "search"
  /\ calls' = [calls EXCEPT ![i].pc = "done", ![i].outcome = "search_throw"]
  /\ lastEvent' = "other"
  /\ UNCHANGED <<revealVars, listVars, view, messages, events, userInput, input,
                 isLoadingEvents, isLoadingChat, shown>>

\* /search: fetch rejects or json() throws; catch logs, finally clears the flag,
\* searchEvents returns undefined and handleSubmit stops
ESSearchThrow(i) ==
  /\ view = "EventSearch" /\ i \in 1..Len(calls) /\ calls[i].pc = "search"
  /\ isLoadingEvents' = FALSE
  /\ calls' = [calls EXCEPT ![i].pc = "done", ![i].outcome = "search_throw"]
  /\ shown' \in Renders(ESRendered(FALSE, isLoadingChat))
  /\ lastEvent' = "other"
  /\ UNCHANGED <<revealVars, listVars, view, messages, events, userInput, input, isLoadingChat>>

\* /search: the reply has no events array
ESSearchNoEvents(i) ==
  /\ view = "EventSearch" /\ i \in 1..Len(calls) /\ calls[i].pc = "search"
  /\ isLoadingEvents' = FALSE
  /\ calls' = [calls EXCEPT ![i].pc = "done", ![i].outcome = "search_noevents"]
  /\ shown' \in Renders(ESRendered(FALSE, isLoadingChat))
  /\ lastEvent' = "other"
  /\ UNCHANGED <<revealVars, listVars, view, messages, events, userInput, input, isLoadingChat>>

\* /search: the reply has an events array; handleSubmit goes on to
\* getChatResponse up to its fetch
ESSearchOk(i, arr) ==
  /\ view = "EventSearch" /\ i \in 1..Len(calls) /\ calls[i].pc = "search"
  /\ events' = processedEvents(arr)
  /\ isLoadingEvents' = FALSE
  /\ isLoadingChat' = TRUE
  /\ calls' = [calls EXCEPT ![i].pc = "chat", ![i].gotEvents = TRUE,
                            ![i].found = processedEvents(arr)]
  /\ shown' \in Renders(ESRendered(FALSE, TRUE))
  /\ lastEvent' = "other"
  /\ UNCHANGED <<revealVars, listVars, view, messages, userInput, input>>

\* /chat: fetch rejects or json() throws
ESChatThrow(i) ==
  /\ view = "EventSearch" /\ i \in 1..Len(calls) /\ calls[i].pc = "chat"
  /\ messages' = Append(messages,
       [type |-> "system", content |-> ChatErrorText, req |-> i])
  /\ isLoadingChat' = FALSE
  /\ calls' = [calls EXCEPT ![i].pc = "done", ![i].outcome = "chat_throw"]
  /\ shown' \in Renders(ESRendered(isLoadingEvents, FALSE))
  /\ lastEvent' = "other"
  /\ UNCHANGED <<revealVars, listVars, view, events, userInput, input, isLoadingEvents>>

\* /chat: a JSON reply whose message field is m
ESChatData(i, m) ==
  /\ view = "EventSearch" /\ i \in 1..Len(calls) /\ calls[i].pc = "chat"
  /\ \/ /\ Truthy(m)
        /\ messages' = Append(messages,
             [type |-> "system", content |-> StripH(m), req |-> i])
        /\ calls' = [calls EXCEPT ![i].pc = "done", ![i].outcome = "chat_ok"]
     \/ /\ ~Truthy(m)
        /\ messages' = messages
        /\ calls' = [calls EXCEPT ![i].pc = "done", ![i].outcome = "chat_nomessage"]
  /\ isLoadingChat' = FALSE
  /\ shown' \in Renders(ESRendered(isLoadingEvents, FALSE))
  /\ lastEvent' = "other"
  /\ UNCHANGED <<revealVars, listVars, view, events, userInput, input, isLoadingEvents>>

\* -- ChatInterface
\* onChange of the text input: the user edits the text on screen
CIChange(v) ==
  /\ view = "ChatInterface"
  /\ v # shown.input
  /\ input' = v
  /\ shown' = [shown EXCEPT !.input = v]
  /\ lastEvent' = "other"
  /\ UNCHANGED <<revealVars, listVars, view, messages, events, userInput, isLoadingEvents,
                 isLoadingChat, calls>>

\* handleSubmit up to its fetch; `input` and `messages` are the values of the
\* render that created the handler, and setMessages([...messages, userMessage])
\* replaces the state by an array built from them
CISubmit ==
  /\ view = "ChatInterface"
  /\ \/ /\ Trim(shown.input) = <<>>
        /\ lastEvent' = "blank submit"
        /\ UNCHANGED <<messages, calls, shown>>
     \/ /\ Trim(shown.input) # <<>>
        /\ Len(calls) < MaxSubmits
        /\ messages' = Append(shown.messages,
             [text |-> shown.input, isUser |-> TRUE, req |-> Len(calls) + 1])
        /\ shown' = [shown EXCEPT !.messages = messages']
        /\ calls' = Append(calls, NewCall("chat", shown.input))
        /\ lastEvent' = "other"
  /\ UNCHANGED <<revealVars, listVars, view, events, userInput, input, isLoadingEvents,
                 isLoadingChat>>

\* the render of these messages throws: message.text.split('\n') on a text
\* that is undefined
RenderThrows(ms) == \E k \in 1..Len(ms) : ms[k].text = Undefined

\* The view and the screen after a fetch continuation has left the state at
\* messages ms and input inp, as a set of <<view, shown>> pairs.  A render
\* that throws takes the whole view down (there is no error boundary).
CIAfterUpdate(ms, inp) ==
  LET now == IF RenderThrows(ms) THEN <<"crashed", shown>>
             ELSE <<view, CIRendered(ms, inp)>>
  IN IF eager THEN {now} ELSE {<<view, shown>>, now}

\* What is left of handleSubmit after its fetch has settled: one
\* setMessages(prev => [...prev, message]) and, after the try/catch,
\* setInput('').  The continuation runs whether or not the view is still
\* there: on a view that has crashed both calls are dropped.  On a legacy
\* root setMessages renders inside the call; when that render throws the
\* tree is taken down and what follows is dropped.
CIContinue(i, text, outcome) ==
  /\ view \in {"ChatInterface", "crashed"}
  /\ i \in 1..Len(calls) /\ calls[i].pc = "chat"
  /\ calls' = [calls EXCEPT ![i].pc = "done", ![i].outcome = outcome]
  /\ lastEvent' = "other"
  /\ IF view = "crashed"
     THEN UNCHANGED <<messages, input, view, shown>>
     ELSE /\ messages' = Append(messages,
               [text |-> text, isUser |-> FALSE, req |-> i])
          /\ IF eager /\ RenderThrows(messages')
             THEN view' = "crashed" /\ UNCHANGED <<input, shown>>
             ELSE /\ input' = <<>>
                  /\ \E r \in CIAfterUpdate(messages', <<>>) :
                       view' = r[1] /\ shown' = r[2]
  /\ UNCHANGED <<revealVars, listVars, events, userInput, isLoadingEvents,
                 isLoadingChat>>

\* fetch rejects or json() throws: the catch block, then setInput('')
CIThrow(i) == CIContinue(i, ServerErrorText, "chat_throw")

\* a JSON reply with fields status and response, then setInput('')
CIData(i, status, response) ==
  IF status = "success" THEN CIContinue(i, response, "chat_ok")
  ELSE CIContinue(i, StatusErrorText, "chat_status")

\* -- both views
\* what a render of the current state shows
Rendered ==
  IF view = "EventSearch" THEN ESRendered(isLoadingEvents, isLoadingChat)
  ELSE CIRendered(messages, input)

\* the render of the state updates that are still pending
Render ==
  /\ view \in {"EventSearch", "ChatInterface"}
  /\ shown # Rendered
  /\ IF view = "ChatInterface" /\ RenderThrows(messages)
     THEN view' = "crashed" /\ shown' = shown
     ELSE view' = view /\ shown' = Rendered
  /\ lastEvent' = "other"
  /\ UNCHANGED <<revealVars, listVars, messages, events, userInput, input,
                 isLoadingEvents, isLoadingChat, calls>>

\* ----------------------------------------------------------- EventsList
MaxEvents == 16    \* longest events array handed to EventsList

InitialVisibleEvents == 5    \* useState(5)
LoadMoreStep == 5            \* prev => prev + 5

\* an events array of n processed events
EventsOfLength(n) ==
  [k \in 1..n |-> [id |-> k, url |-> <<>>, event_url |-> Undefined]]

\* arr.slice(0, n) for n >= 0
Slice(arr, n) == SubSeq(arr, 1, IF n < Len(arr) THEN n ELSE Len(arr))

\* variant with an inclusive comparison
hasMoreEventsInclusive == visibleEvents <= Len(events)

hasMoreEvents == visibleEvents < Len(events)

\* the events whose cards the current render shows (the spinner replaces the
\* whole list while isLoading is true)
Cards == IF isLoadingEvents THEN <<>> ELSE Slice(events, visibleEvents)

\* the current render shows the "load more" button
LoadMoreOffered == ~isLoadingEvents /\ hasMoreEvents

\* the parent re-renders EventsList with new props
ELProps(evs, l) ==
  /\ view = "EventsList"
  /\ <<evs, l>> # <<events, isLoadingEvents>>
  /\ events' = evs
  /\ isLoadingEvents' = l
  /\ UNCHANGED <<revealVars, listVars, view, messages, userInput, input,
                 isLoadingChat, calls, lastEvent, shown>>

\* onClick of the "load more" button
handleLoadMore ==
  /\ view = "EventsList"
  /\ LoadMoreOffered
  /\ visibleEvents' = visibleEvents + LoadMoreStep
  /\ UNCHANGED <<revealVars, appVars>>

\* --------------------------------------------------------- specifications
\* no hosting view
NoApp ==
  /\ view = "none"
  /\ messages = <<>> /\ events = <<>> /\ userInput = <<>> /\ input = <<>>
  /\ isLoadingEvents = FALSE /\ isLoadingChat = FALSE /\ calls = <<>>
  /\ lastEvent = "other"
  /\ shown = [messages |-> <<>>, input |-> <<>>,
              isLoadingEvents |-> FALSE, isLoadingChat |-> FALSE]
  /\ visibleEvents = InitialVisibleEvents

\* no reveal instance
NoInstance ==
  /\ comp = "none" /\ phase = "unmounted" /\ content = <<>> /\ isUser = FALSE
  /\ visibleParagraphs = <<>> /\ displayedParagraphs = <<>>
  /\ isTyping = FALSE /\ sessions = <<>> /\ pending = <<>> /\ clean = TRUE

InitInstance(C) ==
  /\ comp \in {"ChatMessage", "TypingMessage"}
  /\ phase = "rendered"
  /\ content \in C
  /\ isUser \in (IF comp = "ChatMessage" THEN BOOLEAN ELSE {FALSE})
  /\ visibleParagraphs = <<>>
  /\ displayedParagraphs = <<>>
  /\ isTyping = TRUE
  /\ sessions = <<>>
  /\ eager \in BOOLEAN
  /\ pending = <<>>
  /\ clean = TRUE
  /\ NoApp

Init == InitInstance(Contents)

Tick(i) == CMTick(i) \/ TMTick(i)

Next ==
  \/ CMMount
  \/ \E c \in Contents, u \in BOOLEAN : CMUpdate(c, u)
  \/ CMUnmount
  \/ CMUnmountCleanup
  \/ \E i \in 1..MaxStarts : CMTick(i)
  \/ TMMount
  \/ \E c \in Contents : TMUpdate(c)
  \/ TMUnmount
  \/ TMUnmountCleanup
  \/ \E i \in 1..MaxStarts : TMTick(i)
  \/ RenderPending
  \/ ParentRender

Spec == Init /\ [][Next]_vars

\* a timer that stays armed fires, and a queued update is rendered
FairSpec ==
  Spec /\ WF_vars(RenderPending) /\ \A i \in 1..MaxStarts : WF_vars(Tick(i))

\* unit derivation on longer strings: only the mount effect runs
InitUnits == InitInstance(UnitContents)
NextUnits == CMMount \/ TMMount
SpecUnits == InitUnits /\ [][NextUnits]_vars

\* the hosting views
InitApp ==
  /\ NoInstance
  /\ eager \in BOOLEAN
  /\ view \in {"EventSearch", "ChatInterface"}
  /\ messages = <<>> /\ events = <<>> /\ userInput = <<>> /\ input = <<>>
  /\ isLoadingEvents = FALSE /\ isLoadingChat = FALSE /\ calls = <<>>
  /\ lastEvent = "other"
  /\ shown = [messages |-> <<>>, input |-> <<>>,
              isLoadingEvents |-> FALSE, isLoadingChat |-> FALSE]
  /\ visibleEvents = InitialVisibleEvents

Statuses == {"success", "error"}

NextApp ==
  \/ \E v \in Inputs : ESChange(v)
  \/ ESSubmit
  \/ \E i \in 1..MaxSubmits : ESSearchThrow(i)
  \/ \E i \in 1..MaxSubmits : ESSearchNoEvents(i)
  \/ \E i \in 1..MaxSubmits, arr \in SearchResults : ESSearchOk(i, arr)
  \/ \E i \in 1..MaxSubmits : ESChatThrow(i)
  \/ \E i \in 1..MaxSubmits, m \in Replies : ESChatData(i, m)
  \/ \E v \in Inputs : CIChange(v)
  \/ CISubmit
  \/ \E i \in 1..MaxSubmits : CIThrow(i)
  \/ \E i \in 1..MaxSubmits, st \in Statuses, r \in Replies : CIData(i, st, r)
  \/ Render

SpecApp == InitApp /\ [][NextApp]_vars

\* EventsList under the props a parent can hand it, from its first render
\* (EventSearch starts with no events and isLoadingEvents false)
EventLists == { EventsOfLength(n) : n \in 0..MaxEvents }

InitList ==
  /\ NoInstance
  /\ eager = FALSE
  /\ view = "EventsList"
  /\ events = <<>>
  /\ isLoadingEvents = FALSE
  /\ messages = <<>> /\ userInput = <<>> /\ input = <<>>
  /\ isLoadingChat = FALSE /\ calls = <<>>
  /\ lastEvent = "other"
  /\ shown = [messages |-> <<>>, input |-> <<>>,
              isLoadingEvents |-> FALSE, isLoadingChat |-> FALSE]
  /\ visibleEvents = InitialVisibleEvents

NextList ==
  \/ \E evs \in EventLists, l \in BOOLEAN : ELProps(evs, l)
  \/ handleLoadMore

SpecList == InitList /\ [][NextList]_vars

\* EventSearch alone
InitSearch == InitApp /\ view = "EventSearch"

NextSearch ==
  \/ \E v \in Inputs : ESChange(v)
  \/ ESSubmit
  \/ \E i \in 1..MaxSubmits : ESSearchThrow(i)
  \/ \E i \in 1..MaxSubmits : ESSearchNoEvents(i)
  \/ \E i \in 1..MaxSubmits, arr \in SearchResults : ESSearchOk(i, arr)
  \/ \E i \in 1..MaxSubmits : ESChatThrow(i)
  \/ \E i \in 1..MaxSubmits, m \in Replies : ESChatData(i, m)
  \/ Render

SpecSearch == InitSearch /\ [][NextSearch]_vars

\* the request an EventSearch invocation is awaiting settles
Settle(i) ==
  \/ ESSearchThrow(i)
  \/ ESSearchNoEvents(i)
  \/ \E arr \in SearchResults : ESSearchOk(i, arr)
  \/ ESChatThrow(i)
  \/ \E m \in Replies : ESChatData(i, m)

\* every fetch eventually resolves or rejects: while a request is awaited,
\* some awaited request settles
FairSpecSearch == SpecSearch /\ WF_vars(\E i \in 1..MaxSubmits : Settle(i))

\* ================================================================= claims
\* the run of the effect that is current, and its Unit sequence
CurSession == sessions[Cur]
Units == CurSession.units
NUnits == Len(Units)
Min(a, b) == IF a < b THEN a ELSE b

\* a reveal session is under way: mounted, and the message is not a user message
Revealing == phase = "mounted" /\ ~isUser

\* C1: in every state of a reveal session in which every queued update is
\* rendered, the revealed list is the first k Units of the session's Unit
\* sequence, for some 0 <= k <= N (so no entry is a value read from index -1
\* or index N).
C1_RevealedIsPrefix ==
  (Revealing /\ pending = <<>>)
    => \E k \in 0..NUnits : Revealed = SubSeq(Units, 1, k)

\* C2: a session that is never cancelled shows the first k Units once its
\* k-th tick (k <= N) is rendered, and no tick appends anything before or
\* after these N.
C2_ExactlyNTicks ==
  (Revealing /\ Cur = 1) =>
    /\ CurSession.appends <= NUnits
    /\ (pending = <<>>
          => Revealed = SubSeq(Units, 1, Min(CurSession.ticks, NUnits)))

\* C3: once the content has changed, no tick of an earlier session is
\* applied: no earlier run's callback has fired since its cleanup, and once
\* the restart is rendered the revealed list holds nothing but Units of the
\* new content (an `undefined` entry is let through here, so that only
\* stale text refutes this).
C3_NoStaleTick ==
  (phase = "mounted" /\ Cur >= 2) =>
    /\ \A i \in 1..(Cur - 1) : sessions[i].late = 0
    /\ (pending = <<>> =>
          \A k \in 1..Len(Revealed) : Revealed[k] \in Range(Units) \cup {Undefined})

\* C4: at most one timer is armed per instance, and it belongs to the run
\* started last (a run has at most one armed timer by construction).
C4_SingleTimerOwner ==
  \A i \in 1..Cur : sessions[i].timer # "none" => i = Cur

\* C5: after the cleanup of a run has been executed, no timer of that run is
\* armed and no callback of that run has fired since.
C5_CancelReleasesTimer ==
  \A i \in 1..Cur :
    sessions[i].cancelled => (sessions[i].timer = "none" /\ sessions[i].late = 0)

\* C6: for the empty string or a string of line breaks and white space the
\* session has no Units, isTyping is false from the outset, no tick appends
\* and the revealed list stays empty.
C6_DegenerateContent ==
  (Revealing /\ Cur = 1 /\ Trim(content) = <<>>) =>
    /\ NUnits = 0
    /\ CurSession.appends = 0
    /\ Revealed = <<>>
    /\ (comp = "TypingMessage" => ~isTyping)
\* ---- C7: unit derivation, stated without the operators of the model
\* the lines of c: its maximal pieces free of line breaks, as <<first, last>>
LineSpans(c) ==
  { sp \in (1..(Len(c) + 1)) \X (0..Len(c)) :
      /\ sp[2] >= sp[1] - 1
      /\ (sp[1] = 1 \/ c[sp[1] - 1] = "\n")
      /\ (sp[2] = Len(c) \/ c[sp[2] + 1] = "\n")
      /\ \A k \in sp[1]..sp[2] : c[k] # "\n" }

LineOf(c, sp) == SubSeq(c, sp[1], sp[2])

\* a line without its leading and trailing white space
Stripped(l) ==
  LET ink == {k \in 1..Len(l) : l[k] \notin WhiteSpace}
  IN IF ink = {} THEN <<>>
     ELSE SubSeq(l, CHOOSE k \in ink : \A j \in ink : k <= j,
                    CHOOSE k \in ink : \A j \in ink : k >= j)

\* the lines that are not blank
KeptSpans(c) == {sp \in LineSpans(c) : Stripped(LineOf(c, sp)) # <<>>}

\* the distinct trimmed non-blank lines, ordered by first occurrence
ExpectedUnits(c) ==
  LET K == KeptSpans(c)
      D == {Stripped(LineOf(c, sp)) : sp \in K}
      first(d) == CHOOSE sp \in K :
                    /\ Stripped(LineOf(c, sp)) = d
                    /\ \A t \in K : Stripped(LineOf(c, t)) = d => sp[1] <= t[1]
      nth(n) == CHOOSE d \in D :
                  Cardinality({e \in D : first(e)[1] < first(d)[1]}) = n - 1
  IN [n \in 1..Cardinality(D) |-> nth(n)]

\* C7: in both components the Units of a session are the trimmed, non-empty,
\* de-duplicated lines of the content, first occurrences kept in order.
C7_UnitDerivation ==
  phase = "mounted" => Units = ExpectedUnits(content)

\* C8: once the cursor of the current session is at the end and every
\* earlier update of the list is rendered, the session's next tick appends nothing, clears
\* isTyping (once rendered) and arms nothing, and until the next start the
\* revealed list does not change and isTyping changes only from true to
\* false, by that tick.
C8_TerminalStable ==
  [][ (Revealing /\ phase' = "mounted" /\ Len(sessions') = Cur
         /\ CurSession.currentIndex >= NUnits
         /\ \A x \in Range(pending) : x.op \notin {"set", "append"})
      => /\ Revealed' = Revealed
         /\ (sessions'[Cur].ticks # CurSession.ticks
               => /\ sessions'[Cur].timer = "none"
                  /\ (comp = "TypingMessage" /\ pending' = <<>> => ~isTyping'))
         /\ (isTyping' # isTyping
               => /\ isTyping
                  /\ \/ sessions'[Cur].ticks # CurSession.ticks
                     \/ \E x \in Range(pending) : x.op = "typingFalse") ]_vars

\* C10: under fair firing of armed timers, a reveal session that is neither
\* cancelled nor superseded reaches the terminal state: every Unit revealed,
\* isTyping false, no timer of the session armed.
TerminalState ==
  /\ CurSession.timer = "none"
  /\ Range(Units) \subseteq Range(Revealed)
  /\ (comp = "TypingMessage" => ~isTyping)

C10_Termination ==
  \A i \in 1..MaxStarts :
    (Revealing /\ Cur = i) ~> (~Revealing \/ Cur # i \/ TerminalState)

\* ---- C9
SystemMessagesOf(i) ==
  { k \in 1..Len(messages) :
      /\ messages[k].req = i
      /\ IF view = "EventSearch" THEN messages[k].type = "system"
         ELSE ~messages[k].isUser }

MessageText(m) == IF view = "EventSearch" THEN m.content ELSE m.text

FallbackTexts == {ChatErrorText, StatusErrorText, ServerErrorText}

\* C9: every submitted query whose requests have settled has exactly one
\* system message in the transcript, and when a request failed that message
\* is a fixed fallback text.
C9_FailureFallback ==
  \A i \in 1..Len(calls) :
    calls[i].pc = "done" =>
      /\ Cardinality(SystemMessagesOf(i)) = 1
      /\ (calls[i].outcome # "chat_ok" =>
            \A k \in SystemMessagesOf(i) : MessageText(messages[k]) \in FallbackTexts)
\* ---- C11
\* the timers armed, run by run
Timers(ss) == [i \in 1..Len(ss) |-> ss[i].timer]

\* the run has had its terminal tick: the cursor is at the end and a tick
\* that appended nothing has fired
TerminalTickFired(s) == s.currentIndex >= Len(s.units) /\ s.ticks > s.appends

\* a step in which the cleanup of the current run is executed: the effect
\* re-runs, or the cleanup after the removal from the tree
CancelStep ==
  /\ phase \in {"mounted", "removed"}
  /\ \/ Len(sessions') > Cur
     \/ phase = "removed" /\ phase' = "unmounted"

\* C11: the cleanup can always be executed once the component is removed,
\* and a cancel that comes after the session's terminal tick (which has
\* released the timer itself) or that meets a session with nothing armed
\* changes no armed timer of any run and, on unmount, neither the revealed
\* list nor isTyping.
C11_CancelIdempotent ==
  /\ [](phase = "removed" => ENABLED (CMUnmountCleanup \/ TMUnmountCleanup))
  /\ [][ (CancelStep
            /\ (TerminalTickFired(CurSession) \/ CurSession.timer = "none"))
         => /\ Timers(SubSeq(sessions', 1, Cur)) = Timers(sessions)
            /\ (phase' = "unmounted"
                  => Revealed' = Revealed /\ isTyping' = isTyping) ]_vars

\* C11 witness: TypingMessage's terminal tick cleared the interval, the
\* component was removed and the cleanup then cleared the interval again
C11_Witness ==
  /\ comp = "TypingMessage" /\ phase = "unmounted"
  /\ CurSession.cancelled /\ CurSession.late = 0
  /\ TerminalTickFired(CurSession) /\ NUnits > 0
  /\ CurSession.timer = "none" /\ ~isTyping

\* ---- C12
\* the Units joined by line breaks
RECURSIVE Join(_)
Join(us) ==
  IF us = <<>> THEN <<>>
  ELSE IF Len(us) = 1 THEN us[1]
  ELSE us[1] \o <<"\n">> \o Join(Tail(us))

\* C12: deriving Units from the Units joined by line breaks gives the same
\* Units again, in ChatMessage and in TypingMessage.
C12_DerivationIdempotent ==
  phase = "mounted" =>
    Units = IF comp = "ChatMessage" THEN uniqueParagraphs(Join(Units))
            ELSE paragraphs(Join(Units))

\* C12 witness: ChatMessage has derived b, a from padded, repeated lines
C12_Witness ==
  /\ phase = "mounted" /\ comp = "ChatMessage"
  /\ content = <<" ", "b", "\n", "a", "\n", "b">>
  /\ Units = << <<"b">>, <<"a">> >>

\* ---- C13
\* C13: a tick that appends advances the cursor by exactly one and, when it
\* is rendered with no other update waiting, appends the Unit the cursor
\* designated when the tick fired; no tick lowers the cursor.
C13_TickAppendsDesignated ==
  [][ \A i \in 1..Cur :
        (Len(sessions') = Cur /\ sessions'[i].ticks # sessions[i].ticks)
        => /\ sessions'[i].currentIndex >= sessions[i].currentIndex
           /\ (sessions'[i].appends # sessions[i].appends
                 => /\ sessions'[i].currentIndex = sessions[i].currentIndex + 1
                    /\ (phase = "mounted" /\ pending = <<>> /\ pending' = <<>>
                          => Revealed' = Append(Revealed,
                               At(sessions[i].units, sessions[i].currentIndex)))) ]_vars

\* ---- C14
\* every handleSubmit invocation has run to its end
AllSettled == \A i \in 1..Len(calls) : calls[i].pc = "done"

\* the invocations whose /search reply carried an events array
WithEvents == { i \in 1..Len(calls) : calls[i].gotEvents }

\* C14: in EventSearch, once every request has settled, the displayed events
\* are those of the most recently submitted query that returned an events
\* array, whatever the order in which the replies arrived.
C14_LatestQueryWins ==
  (view = "EventSearch" /\ AllSettled /\ WithEvents # {})
    => LET latest == CHOOSE i \in WithEvents : \A j \in WithEvents : j <= i
       IN events = calls[latest].found

\* ---- C15
\* some invocation is awaiting the request p ("search" or "chat")
InFlight(p) == \E i \in 1..Len(calls) : calls[i].pc = p

\* C15: in every state of EventSearch, isLoadingEvents is true exactly when a
\* search request is in flight and isLoadingChat exactly when a chat request
\* is in flight.
C15_FlagsTrackRequests ==
  view = "EventSearch" =>
    /\ isLoadingEvents <=> InFlight("search")
    /\ isLoadingChat <=> InFlight("chat")

\* ---- C16
BothClear == ~isLoadingEvents /\ ~isLoadingChat

\* C16: in EventSearch, when every fetch settles, a raised loading flag is
\* followed by a state where every request has settled and both flags are
\* false; whenever every request has settled both flags are false, and from
\* there they stay false until a step that submits.
C16_LoadingClears ==
  /\ [](view = "EventSearch" /\ AllSettled => BothClear)
  /\ [][(view = "EventSearch" /\ AllSettled /\ BothClear /\ ~BothClear')
          => Len(calls') = Len(calls) + 1]_vars
  /\ (view = "EventSearch" /\ ~BothClear) ~> (AllSettled /\ BothClear)

\* C16 witness: two submits, one ended by a failed /search and one by a
\* /chat reply without a message, and both flags are down
C16_Witness ==
  /\ view = "EventSearch" /\ Len(calls) = 2 /\ AllSettled /\ BothClear
  /\ calls[1].outcome = "search_throw"
  /\ calls[2].outcome = "chat_nomessage"

\* ---- C17
IsUserMessage(m) == IF view = "EventSearch" THEN m.type = "user" ELSE m.isUser

\* positions of the user / system messages of the i-th non-blank submit
UserAt(i) ==
  { k \in 1..Len(messages) : messages[k].req = i /\ IsUserMessage(messages[k]) }
SystemAt(i) ==
  { k \in 1..Len(messages) : messages[k].req = i /\ ~IsUserMessage(messages[k]) }

\* C17: in EventSearch and ChatInterface every step leaves the transcript as
\* it is or appends one message to it; every non-blank submit has exactly one
\* user message and at most one system message in the transcript, and the
\* system message comes after the user message.
C17_TranscriptAppendOnly ==
  /\ [][ \/ messages' = messages
         \/ /\ Len(messages') = Len(messages) + 1
            /\ SubSeq(messages', 1, Len(messages)) = messages ]_vars
  /\ [](\A i \in 1..Len(calls) :
          /\ Cardinality(UserAt(i)) = 1
          /\ Cardinality(SystemAt(i)) <= 1
          /\ \A u \in UserAt(i), y \in SystemAt(i) : u < y)

\* ---- C18
\* C18: a submit of an empty or whitespace-only text, in EventSearch or in
\* ChatInterface, starts no request and leaves the messages, the events, the
\* input text and both loading flags as they were.
C18_BlankSubmitNoOp ==
  [][ lastEvent' = "blank submit"
        => /\ calls' = calls
           /\ messages' = messages
           /\ events' = events
           /\ userInput' = userInput
           /\ input' = input
           /\ isLoadingEvents' = isLoadingEvents
           /\ isLoadingChat' = isLoadingChat
           /\ shown' = shown ]_vars

\* C18 witness: EventSearch, a whitespace-only text was submitted while an
\* earlier request is pending
C18_Witness ==
  /\ view = "EventSearch" /\ lastEvent = "blank submit"
  /\ userInput = <<" ">>
  /\ isLoadingEvents /\ Len(messages) = 1

\* ---- C19
\* C19: visibleEvents starts at 5, changes only by load more adding 5, is a
\* positive multiple of 5 and never decreases; the number of cards rendered
\* is always min(visibleEvents, number of events) and the load more button is
\* offered exactly when visibleEvents is smaller than the number of events.
C19_Pagination ==
  /\ visibleEvents = 5
  /\ [][visibleEvents' = visibleEvents + 5]_visibleEvents
  /\ [](/\ visibleEvents > 0 /\ visibleEvents % 5 = 0
        /\ Len(Cards) = Min(visibleEvents, Len(events))
        /\ LoadMoreOffered <=> visibleEvents < Len(events))

\* C19 amended: as C19, with the cards and the button as stated whenever
\* isLoading is false; while isLoading is true no card and no button are
\* rendered.
C19_PaginationWhenLoaded ==
  /\ visibleEvents = 5
  /\ [][visibleEvents' = visibleEvents + 5]_visibleEvents
  /\ [](/\ visibleEvents > 0 /\ visibleEvents % 5 = 0
        /\ ~isLoadingEvents =>
             /\ Len(Cards) = Min(visibleEvents, Len(events))
             /\ LoadMoreOffered <=> visibleEvents < Len(events)
        /\ isLoadingEvents => Cards = <<>> /\ ~LoadMoreOffered)

\* C19 witness: after two load more clicks the events were replaced by a
\* shorter array; visibleEvents kept its value and all 7 cards are shown
C19_Witness ==
  /\ view = "EventsList" /\ ~isLoadingEvents
  /\ visibleEvents = 15 /\ Len(events) = 7
  /\ Len(Cards) = 7 /\ ~LoadMoreOffered
====
